---------------------------- MODULE Spec2Model ----------------------------
(***************************************************************************)
(* Model of the numeric core of homNand (utils/src/math.rs) and of its     *)
(* logical-expression front end (nander/src/lib.rs).                       *)
(*                                                                         *)
(* The operations of both files, except fft_cross and fft_mul_add, are     *)
(* pure functions of their arguments.  For them the state is one pending   *)
(* invocation (call) and its outcome (ret): the initial states enumerate   *)
(* the invocations, one action per operation executes the invocation it is *)
(* about and records what it returns, or the fact that it panics.          *)
(* fft_cross and fft_mul_add share the process-wide plan cache (FFT_MAP)   *)
(* and are modelled step by step, called from several threads (threads).   *)
(*                                                                         *)
(* A u32 is the pair <<hi, lo>> of its 16-bit halves, because the integers *)
(* of the model checker are themselves 32-bit signed; an i32 is an         *)
(* integer.  Every arithmetic operation of the source on u32 / i32 is      *)
(* modelled with its width: wrapping where the source wraps, and, where    *)
(* the source uses the plain operators, panicking under the debug profile  *)
(* (overflow checks on) and wrapping under the release profile.            *)
(***************************************************************************)
EXTENDS Integers, Sequences, FiniteSets, TLC

VARIABLES call, ret, FFT_MAP, threads

vars == <<call, ret, FFT_MAP, threads>>

(***************************************************************************)
(* Outcomes of an invocation.                                              *)
(***************************************************************************)
Idle == [done |-> FALSE, panic |-> FALSE, val |-> <<>>]
Returns(v) == [done |-> TRUE, panic |-> FALSE, val |-> v]
Panic == [done |-> TRUE, panic |-> TRUE, val |-> <<>>]

Profiles == {"debug", "release"}

(***************************************************************************)
(* The process-wide plan cache FFT_MAP and the threads that call           *)
(* fft_cross / fft_mul_add.  No other operation of the library touches     *)
(* either.                                                                 *)
(*                                                                         *)
(* FFT_MAP is the RwLock and the FftMap it guards: `writer` is the thread  *)
(* holding the write guard (0 for none; the source never takes the read    *)
(* guard), `poisoned` the lock's poison flag, map_f and map_i the two      *)
(* HashMaps (absent key: None), `planned` the number of PolFft values      *)
(* constructed so far, which gives each its identity.  A PolFft is         *)
(* [id, n, inverse]: its memo table has n entries.                         *)
(*                                                                         *)
(* A thread is at `pc` in a call of `fn` on polynomials of length N, with  *)
(* the plans it has obtained, the number of plans it has installed in this *)
(* call, and the outcome of its latest call.                               *)
(***************************************************************************)
MaxThreads == 2
MaxFftN == 4

Threads == 1..MaxThreads
FftLengths == 1..MaxFftN
PlanSizes == 0..(MaxFftN \div 2)

None == [id |-> 0, n |-> 0, inverse |-> FALSE]

PanicWith(msg) == [done |-> TRUE, panic |-> TRUE, val |-> msg]

FftMap_new == [map_f |-> [n \in PlanSizes |-> None],
               map_i |-> [n \in PlanSizes |-> None],
               planned |-> 0]

RwLock_new(m) ==
    [writer |-> 0, poisoned |-> FALSE,
     map_f |-> m.map_f, map_i |-> m.map_i, planned |-> m.planned]

NotCalling == [pc |-> "idle", fn |-> "", N |-> 0, polfft |-> None, polifft |-> None,
               installs |-> 0, ret |-> Idle]

FftInit ==
    /\ FFT_MAP = RwLock_new(FftMap_new)
    /\ threads = [t \in Threads |-> NotCalling]

\* HashMap::get and HashMap::insert
HashMap_get_always_absent(map, n) == None
HashMap_get(map, n) == map[n]
HashMap_insert(map, n, polfft) == [map EXCEPT ![n] = polfft]

\* PolFft::new_forward / new_inverse on the plan of size n: the memo table is
\* filled for i in 0..n
PolFft_new(id, n, inverse) == [id |-> id, n |-> n, inverse |-> inverse]

\* the indices the calls read, for polynomials of length N, in reading order
N_half(N) == N \div 2

\* self.coef_(i) and self.coef_(i + N/2) for i in 0..N/2: bounds-checked reads
\* of an array of N coefficients
coef_reads(N) == {i : i \in 0..(N_half(N) - 1)} \cup {i + N_half(N) : i \in 0..(N_half(N) - 1)}

\* polfft.memo.get_unchecked(i) for i in 0..N/2: unchecked reads of the memo
memo_reads(N) == 0..(N_half(N) - 1)

\* the slot of l_buffer that coefficient i of the result is read from
\* (l_buffer[i].re for i < N/2, l_buffer[i - N/2].im otherwise)
buffer_slot(N, i) == IF i < N_half(N) THEN i ELSE i - N_half(N)

buffer_part(N, i) == IF i < N_half(N) THEN "re" ELSE "im"

\* array![ i => ... ; N]: the result, or the panic of the first read out of
\* the N/2 slots of l_buffer
output(N) ==
    IF \E i \in 0..(N - 1) : buffer_slot(N, i) >= N_half(N)
    THEN PanicWith("index out of bounds")
    ELSE Returns([j \in 1..N |-> <<buffer_part(N, j - 1), buffer_slot(N, j - 1)>>])

\* the entry of fft_cross / fft_mul_add
FftCall(t) ==
    /\ threads[t].pc \in {"idle", "returned"}
    /\ \E fn \in {"fft_cross", "fft_mul_add"}, N \in FftLengths :
         threads' = [threads EXCEPT ![t] =
                        [pc |-> "write", fn |-> fn, N |-> N, polfft |-> None,
                         polifft |-> None, installs |-> 0, ret |-> Idle]]
    /\ UNCHANGED <<call, ret, FFT_MAP>>

\* FFT_MAP.write().map_err(..).unwrap(): waits until no thread holds the
\* guard; on a poisoned lock write() returns Err, the guard inside the error
\* is dropped and unwrap panics
FftWrite(t) ==
    /\ threads[t].pc = "write"
    /\ FFT_MAP.writer = 0
    /\ IF FFT_MAP.poisoned
       THEN /\ threads' = [threads EXCEPT ![t].pc = "panicked",
                                          ![t].ret = PanicWith("PoisonError")]
            /\ UNCHANGED FFT_MAP
       ELSE /\ threads' = [threads EXCEPT ![t].pc = "get_fft_forward"]
            /\ FFT_MAP' = [FFT_MAP EXCEPT !.writer = t]
    /\ UNCHANGED <<call, ret>>

\* FftMap::get_fft_forward and get_fft_inverse on the guarded map m: the
\* map afterwards and the plan returned
get_fft_forward(m, n) ==
    LET item == HashMap_get(m.map_f, n)
    IN  IF item # None THEN [map |-> m, polfft |-> item, installed |-> 0]
        ELSE LET polfft == PolFft_new(m.planned + 1, n, FALSE)
             IN  [map |-> [m EXCEPT !.map_f = HashMap_insert(@, n, polfft),
                                    !.planned = @ + 1],
                  polfft |-> polfft, installed |-> 1]

get_fft_inverse(m, n) ==
    LET item == HashMap_get(m.map_i, n)
    IN  IF item # None THEN [map |-> m, polfft |-> item, installed |-> 0]
        ELSE LET polfft == PolFft_new(m.planned + 1, n, TRUE)
             IN  [map |-> [m EXCEPT !.map_i = HashMap_insert(@, n, polfft),
                                    !.planned = @ + 1],
                  polfft |-> polfft, installed |-> 1]

FftGetForward(t) ==
    /\ threads[t].pc = "get_fft_forward"
    /\ LET got == get_fft_forward(FFT_MAP, N_half(threads[t].N))
       IN  /\ FFT_MAP' = got.map
           /\ threads' = [threads EXCEPT ![t].pc = "forward",
                                         ![t].polfft = got.polfft,
                                         ![t].installs = @ + got.installed]
    /\ UNCHANGED <<call, ret>>

\* a panic of thread t while it holds the write guard: the guard is dropped
\* during unwinding, which poisons the lock
unwind(t, msg) ==
    /\ threads' = [threads EXCEPT ![t].pc = "panicked", ![t].ret = PanicWith(msg)]
    /\ FFT_MAP' = [FFT_MAP EXCEPT !.writer = 0, !.poisoned = TRUE]

\* filling l_buffer and r_buffer: a coefficient read out of range panics, a
\* memo read out of range is undefined behaviour (any outcome)
forward_outcomes(N, polfft) ==
    IF \E i \in coef_reads(N) : i >= N THEN {"panic"}
    ELSE IF \E i \in memo_reads(N) : i >= polfft.n THEN {"panic", "continue"}
    ELSE {"continue"}

\* the two buffers, the forward transforms (buffers of exactly the plan's
\* size) and the pointwise product
FftForward(t) ==
    /\ threads[t].pc = "forward"
    /\ \E o \in forward_outcomes(threads[t].N, threads[t].polfft) :
         IF o = "panic" THEN unwind(t, "index out of bounds")
         ELSE /\ threads' = [threads EXCEPT ![t].pc = "get_fft_inverse"]
              /\ UNCHANGED FFT_MAP
    /\ UNCHANGED <<call, ret>>

FftGetInverse(t) ==
    /\ threads[t].pc = "get_fft_inverse"
    /\ LET got == get_fft_inverse(FFT_MAP, N_half(threads[t].N))
       IN  /\ FFT_MAP' = got.map
           /\ threads' = [threads EXCEPT ![t].pc = "inverse",
                                         ![t].polifft = got.polfft,
                                         ![t].installs = @ + got.installed]
    /\ UNCHANGED <<call, ret>>

\* the scaling by the inverse memo: fft_cross zips the buffer with the memo,
\* fft_mul_add indexes the memo (bounds-checked) by the buffer's index
inverse_panics(fn, N, polifft) ==
    fn = "fft_mul_add" /\ \E i \in 0..(N_half(N) - 1) : i >= polifft.n

\* the inverse transform and the scaling
FftInverse(t) ==
    /\ threads[t].pc = "inverse"
    /\ IF inverse_panics(threads[t].fn, threads[t].N, threads[t].polifft)
       THEN unwind(t, "index out of bounds")
       ELSE /\ threads' = [threads EXCEPT ![t].pc = "output"]
            /\ UNCHANGED FFT_MAP
    /\ UNCHANGED <<call, ret>>

\* the result is read out of l_buffer (fft_mul_add adds it to s in place);
\* on return the guard is dropped
FftOutput(t) ==
    /\ threads[t].pc = "output"
    /\ LET o == output(threads[t].N)
       IN  IF o.panic THEN unwind(t, o.val)
           ELSE /\ threads' = [threads EXCEPT ![t].pc = "returned", ![t].ret = o]
                /\ FFT_MAP' = [FFT_MAP EXCEPT !.writer = 0]
    /\ UNCHANGED <<call, ret>>

FftNext ==
    \E t \in Threads :
        \/ FftCall(t)
        \/ FftWrite(t)
        \/ FftGetForward(t)
        \/ FftForward(t)
        \/ FftGetInverse(t)
        \/ FftInverse(t)
        \/ FftOutput(t)

FftSpecInit ==
    /\ FftInit
    /\ call = [op |-> "fft"]
    /\ ret = Idle

SpecFft == FftSpecInit /\ [][FftNext]_vars

(***************************************************************************)
(* u32 as two 16-bit halves.                                               *)
(***************************************************************************)
B16 == 2^16
BITS == 32

U32(hi, lo) == <<hi, lo>>
u32_zero == U32(0, 0)
u32_one == U32(0, 1)
u32_MAX == U32(B16 - 1, B16 - 1)

\* an integer in [0, 2^31) as a u32
u32_of(n) == U32(n \div B16, n % B16)

wrapping_add(a, b) ==
    LET lo == a[2] + b[2]
    IN  U32((a[1] + b[1] + (lo \div B16)) % B16, lo % B16)

wrapping_sub(a, b) ==
    LET lo == a[2] - b[2]
    IN  U32((a[1] - b[1] + (lo \div B16)) % B16, lo % B16)

\* the full 32-bit product of two 16-bit halves
mul16(x, y) ==
    LET p0 == x * (y % 256)
        p1 == x * (y \div 256)
        t  == p0 + (p1 % 256) * 256
    IN  U32((t \div B16) + (p1 \div 256), t % B16)

wrapping_mul(a, b) ==
    LET p == mul16(a[2], b[2])
    IN  U32((p[1] + mul16(a[1], b[2])[2] + mul16(a[2], b[1])[2]) % B16, p[2])

\* a << n and a >> n for a shift amount n in [0, 32)
shl(a, n) ==
    IF n < 16
    THEN U32((((a[1] * 2^n) % B16) + ((a[2] * 2^n) \div B16)) % B16,
             (a[2] * 2^n) % B16)
    ELSE U32((a[2] * 2^(n - 16)) % B16, 0)

shr(a, n) ==
    IF n < 16
    THEN U32(a[1] \div 2^n, (a[2] \div 2^n) + (a[1] % 2^n) * 2^(16 - n))
    ELSE U32(0, a[1] \div 2^(n - 16))

RECURSIVE and16(_, _)
and16(x, y) ==
    IF x = 0 \/ y = 0 THEN 0
    ELSE (x % 2) * (y % 2) + 2 * and16(x \div 2, y \div 2)

bitand(a, b) == U32(and16(a[1], b[1]), and16(a[2], b[2]))

u32_ge(a, b) == a[1] > b[1] \/ (a[1] = b[1] /\ a[2] >= b[2])

\* `x as i32` of a u32 and `x as u32` of an i32: the same 32 bits
as_i32(w) ==
    IF w[1] >= 2^15 THEN (w[1] - B16) * B16 + w[2] ELSE w[1] * B16 + w[2]

as_u32(i) ==
    IF i >= 0 THEN U32(i \div B16, i % B16)
    ELSE U32((i \div B16) + B16, i % B16)

i32_MIN == as_i32(U32(2^15, 0))
i32_MAX == as_i32(U32(2^15 - 1, B16 - 1))

(***************************************************************************)
(* Plain (non-wrapping) operators of the source: with overflow checks      *)
(* (debug profile) an overflow panics, without them (release profile) the  *)
(* result wraps and a shift amount is taken modulo the width.  Each        *)
(* returns an outcome: Panic, or Returns of the value.                     *)
(***************************************************************************)
checked_shl(profile, a, n) ==
    IF n >= 0 /\ n < BITS THEN Returns(shl(a, n))
    ELSE IF profile = "debug" THEN Panic
    ELSE Returns(shl(a, n % BITS))

checked_shr(profile, a, n) ==
    IF n >= 0 /\ n < BITS THEN Returns(shr(a, n))
    ELSE IF profile = "debug" THEN Panic
    ELSE Returns(shr(a, n % BITS))

\* 2 * u on u32
checked_double(profile, u) ==
    IF u[1] >= 2^15 /\ profile = "debug" THEN Panic
    ELSE Returns(wrapping_add(u, u))

\* u += 1 on u32
checked_incr_no_carry(profile, u) == Returns(u)
checked_incr(profile, u) ==
    IF u = u32_MAX /\ profile = "debug" THEN Panic
    ELSE Returns(wrapping_add(u, u32_one))

\* x - y on i32
i32_sub_overflows(x, y) ==
    \/ y < 0 /\ x > i32_MAX + y
    \/ y > 0 /\ x < i32_MIN + y

checked_i32_sub(profile, x, y) ==
    IF i32_sub_overflows(x, y)
    THEN IF profile = "debug" THEN Panic
         ELSE Returns(as_i32(wrapping_sub(as_u32(x), as_u32(y))))
    ELSE Returns(x - y)

\* i32::abs: panics on i32::MIN with overflow checks, returns i32::MIN without
i32_abs(profile, x) ==
    IF x = i32_MIN
    THEN IF profile = "debug" THEN Panic ELSE Returns(i32_MIN)
    ELSE Returns(IF x < 0 THEN 0 - x ELSE x)

(***************************************************************************)
(* Decimal<u32> (Torus): wrapping arithmetic on the inner word.            *)
(***************************************************************************)
Add(self, rhs) == wrapping_add(self, rhs)
Sub(self, rhs) == wrapping_sub(self, rhs)
Neg_complement(self) == U32(B16 - 1 - self[1], B16 - 1 - self[2])
Neg(self) == wrapping_sub(u32_zero, self)

Mul_u32(self, rhs) == wrapping_mul(self, rhs)

Mul_i32(profile, self, rhs) ==
    IF rhs < 0
    THEN LET a == i32_abs(profile, rhs)
         IN  IF a.panic THEN Panic
             ELSE Returns(Neg(Mul_u32(self, as_u32(a.val))))
    ELSE Returns(Mul_u32(self, as_u32(rhs)))

(***************************************************************************)
(* decomposition_u32: the L unsigned base-2^bits digits of the rounded     *)
(* word, most significant first.                                           *)
(***************************************************************************)
TOTAL == 32

\* (u >> (TOTAL - bits*(i+1))) & mask for the 0-based digit index i
u32_digit(profile, u, mask, bits, i) ==
    LET s == checked_shr(profile, u, TOTAL - bits * (i + 1))
    IN  IF s.panic THEN Panic ELSE Returns(bitand(s.val, mask))

RECURSIVE u32_digits(_, _, _, _, _, _)
u32_digits(profile, u, mask, bits, i, L) ==
    IF i >= L THEN Returns(<<>>)
    ELSE LET d == u32_digit(profile, u, mask, bits, i)
             rest == u32_digits(profile, u, mask, bits, i + 1, L)
         IN  IF d.panic \/ rest.panic THEN Panic
             ELSE Returns(<<d.val>> \o rest.val)

decomposition_u32(profile, self, L, bits) ==
    IF profile = "debug" /\ L * bits > BITS THEN Panic      \* debug_assert!
    ELSE
    LET round == IF TOTAL - L * bits # 0
                 THEN checked_shl(profile, u32_one, TOTAL - L * bits - 1)
                 ELSE Returns(u32_zero)
        bg == checked_shl(profile, u32_one, bits)
    IN  IF round.panic \/ bg.panic THEN Panic
        ELSE LET u == wrapping_add(self, round.val)
                 mask == wrapping_sub(bg.val, u32_one)
             IN  u32_digits(profile, u, mask, bits, 0, L)

(***************************************************************************)
(* decomposition_i32: walks the digits from the last to the first; a digit *)
(* u with 2*u >= bg becomes u - bg and carries 1 into the digit before it. *)
(* i is the 1-based index of the digit being classified, i_res the digits  *)
(* already classified (those after i).                                     *)
(***************************************************************************)
\* the classification `2 * u >= bg` of a digit
is_upper_half_strict(twice, bg) == twice # bg /\ u32_ge(twice, bg)
is_upper_half(twice, bg) == u32_ge(twice, bg)

RECURSIVE i32_digits(_, _, _, _, _)
i32_digits(profile, u_res, bg, i, i_res) ==
    IF i = 0 THEN Returns(i_res)
    ELSE
    LET u == u_res[i]
        twice == checked_double(profile, u)
    IN  IF twice.panic THEN Panic
        ELSE IF is_upper_half(twice.val, bg)
        THEN LET carry == IF i > 1 THEN checked_incr(profile, u_res[i - 1])
                          ELSE Returns(u32_zero)
                 d == checked_i32_sub(profile, as_i32(u), as_i32(bg))
             IN  IF carry.panic \/ d.panic THEN Panic
                 ELSE i32_digits(profile,
                                 IF i > 1 THEN [u_res EXCEPT ![i - 1] = carry.val]
                                 ELSE u_res,
                                 bg, i - 1, <<d.val>> \o i_res)
        ELSE i32_digits(profile, u_res, bg, i - 1, <<as_i32(u)>> \o i_res)

decomposition_i32(profile, self, L, bits) ==
    LET u_res == decomposition_u32(profile, self, L, bits)
        bg == checked_shl(profile, u32_one, bits)
    IN  IF u_res.panic \/ bg.panic THEN Panic
        ELSE i32_digits(profile, u_res.val, bg.val, L, <<>>)

(***************************************************************************)
(* Polynomial<Decimal<u32>, N>::decomposition: every coefficient is        *)
(* decomposed, then digit i of every coefficient makes polynomial i.       *)
(***************************************************************************)
RECURSIVE decomposition_res(_, _, _, _, _)
decomposition_res(profile, self, L, bits, j) ==
    IF j > Len(self) THEN Returns(<<>>)
    ELSE LET d == decomposition_i32(profile, self[j], L, bits)
         IN  IF d.panic THEN Panic
             ELSE LET rest == decomposition_res(profile, self, L, bits, j + 1)
                  IN  IF rest.panic THEN Panic
                      ELSE Returns(<<d.val>> \o rest.val)

decomposition(profile, self, L, bits) ==
    LET res == decomposition_res(profile, self, L, bits, 1)
    IN  IF res.panic THEN Panic
        ELSE Returns([i \in 1..L |-> [j \in 1..Len(self) |-> res.val[j][i]]])

(***************************************************************************)
(* From<f32> / From<f64>.  A real argument is the dyadic rational          *)
(* num / 2^exp.  mant is the number of significand bits of the float       *)
(* format (24 for f32, 53 for f64).  A float that is a whole number below  *)
(* or equal to 2^32 is the pair <<hi, lo>> with hi <= 2^16.                *)
(***************************************************************************)
RECURSIVE bitlen16(_)
bitlen16(x) == IF x = 0 THEN 0 ELSE 1 + bitlen16(x \div 2)

bitlen(w) == IF w[1] > 0 THEN 16 + bitlen16(w[1]) ELSE bitlen16(w[2])

\* `w as f32` / `w as f64`: round to nearest, ties to even, on mant bits
float_of_u32(w, mant) ==
    LET d == bitlen(w) - mant
    IN  IF d <= 0 THEN w
        ELSE LET q == shr(w, d)
                 r == wrapping_sub(w, shl(q, d))
                 half == shl(u32_one, d - 1)
                 up == \/ (r # half /\ u32_ge(r, half))
                       \/ (r = half /\ q[2] % 2 = 1)
                 qq == IF up THEN wrapping_add(q, u32_one) ELSE q
             IN  <<qq[1] * 2^d + ((qq[2] * 2^d) \div B16), (qq[2] * 2^d) % B16>>

\* ((val - val.floor()).fract() * X) as u32 with X = u32::MAX as float.
\* For the arguments of the model (exp <= 21) the subtraction and the product
\* are exactly representable in both formats, so neither rounds; the cast
\* truncates towards zero.
from_float(val, mant) ==
    LET X == float_of_u32(u32_MAX, mant)
        m == val.num % 2^val.exp
        A == m * X[1]
        B == m * X[2]
        low == ((A % 2^val.exp) * B16 + B) \div 2^val.exp
    IN  U32((A \div 2^val.exp) + (low \div B16), low % B16)

MantF32 == 24
MantF64 == 53

From_f32(val) == from_float(val, MantF32)
From_f64(val) == from_float(val, MantF64)

(***************************************************************************)
(* Invocations of the torus operations.                                    *)
(***************************************************************************)
MaxFracBits == 3

HalfSamples == {0, 1, 2, 2^14, 21845, 2^15 - 2, 2^15 - 1, 2^15, 2^15 + 1, 43690, 2^16 - 2, 2^16 - 1}

\* the words of tests::decimal_decomposition and tests::polynomial_decomposition
TestWords == {U32(1056, 57344), U32(1056, 49152), U32(32264, 128), U32(2, 32768)}

Words == {U32(h, l) : h \in HalfSamples, l \in HalfSamples} \cup TestWords

I32Samples == {i32_MIN, i32_MIN + 1, 0 - B16, -3, -2, -1, 0, 1, 2, 3, B16 - 1, i32_MAX}

Shapes == {<<L, bits>> \in (1..BITS) \X (1..BITS) : L * bits <= BITS}

\* shapes beyond the precondition L * bits <= 32
OverShapes == {<<2, 17>>, <<3, 11>>, <<4, 9>>, <<5, 7>>, <<33, 1>>, <<1, 33>>}

\* polynomials of length 2 over the words of the tests
TestPolys == [1..2 -> TestWords]

Reals == UNION {[num : (0 - 2^(e + 1))..(2^(e + 1)), exp : {e}] : e \in 0..MaxFracBits}

TorusInit ==
    /\ FftInit
    /\ ret = Idle
    /\ \/ \E u \in Words, sh \in Shapes \cup OverShapes, p \in Profiles,
             op \in {"decomposition_u32", "decomposition_i32"} :
            call = [op |-> op, profile |-> p, self |-> u, L |-> sh[1], bits |-> sh[2]]
       \/ \E a \in TestPolys, sh \in Shapes \cup OverShapes, p \in Profiles :
            call = [op |-> "decomposition", profile |-> p, self |-> a, L |-> sh[1], bits |-> sh[2]]
       \/ \E a \in Words, b \in Words, op \in {"add", "sub"} :
            call = [op |-> op, self |-> a, rhs |-> b]
       \/ \E a \in Words : call = [op |-> "neg", self |-> a]
       \/ \E a \in Words, k \in Words : call = [op |-> "mul_u32", self |-> a, rhs |-> k]
       \/ \E a \in Words, k \in I32Samples, p \in Profiles :
            call = [op |-> "mul_i32", profile |-> p, self |-> a, rhs |-> k]
       \/ \E x \in Reals, op \in {"from_f32", "from_f64"} : call = [op |-> op, val |-> x]

DecompositionU32 ==
    /\ ~ret.done /\ call.op = "decomposition_u32"
    /\ ret' = decomposition_u32(call.profile, call.self, call.L, call.bits)
    /\ UNCHANGED <<call, FFT_MAP, threads>>

DecompositionI32 ==
    /\ ~ret.done /\ call.op = "decomposition_i32"
    /\ ret' = decomposition_i32(call.profile, call.self, call.L, call.bits)
    /\ UNCHANGED <<call, FFT_MAP, threads>>

PolyDecomposition ==
    /\ ~ret.done /\ call.op = "decomposition"
    /\ ret' = decomposition(call.profile, call.self, call.L, call.bits)
    /\ UNCHANGED <<call, FFT_MAP, threads>>

DecimalAdd ==
    /\ ~ret.done /\ call.op = "add"
    /\ ret' = Returns(Add(call.self, call.rhs))
    /\ UNCHANGED <<call, FFT_MAP, threads>>

DecimalSub ==
    /\ ~ret.done /\ call.op = "sub"
    /\ ret' = Returns(Sub(call.self, call.rhs))
    /\ UNCHANGED <<call, FFT_MAP, threads>>

DecimalNeg ==
    /\ ~ret.done /\ call.op = "neg"
    /\ ret' = Returns(Neg(call.self))
    /\ UNCHANGED <<call, FFT_MAP, threads>>

DecimalMulU32 ==
    /\ ~ret.done /\ call.op = "mul_u32"
    /\ ret' = Returns(Mul_u32(call.self, call.rhs))
    /\ UNCHANGED <<call, FFT_MAP, threads>>

DecimalMulI32 ==
    /\ ~ret.done /\ call.op = "mul_i32"
    /\ ret' = Mul_i32(call.profile, call.self, call.rhs)
    /\ UNCHANGED <<call, FFT_MAP, threads>>

DecimalFromF32 ==
    /\ ~ret.done /\ call.op = "from_f32"
    /\ ret' = Returns(From_f32(call.val))
    /\ UNCHANGED <<call, FFT_MAP, threads>>

DecimalFromF64 ==
    /\ ~ret.done /\ call.op = "from_f64"
    /\ ret' = Returns(From_f64(call.val))
    /\ UNCHANGED <<call, FFT_MAP, threads>>

TorusNext ==
    \/ DecompositionU32
    \/ DecompositionI32
    \/ PolyDecomposition
    \/ DecimalAdd
    \/ DecimalSub
    \/ DecimalNeg
    \/ DecimalMulU32
    \/ DecimalMulI32
    \/ DecimalFromF32
    \/ DecimalFromF64

SpecTorus == TorusInit /\ [][TorusNext]_vars

Returned(op) == call.op = op /\ ret.done /\ ~ret.panic

(***************************************************************************)
(* Claims about the torus.                                                 *)
(***************************************************************************)
\* sum over the digits i..L of d[i] * 2^(32 - i*bits), modulo 2^32
RECURSIVE Recompose(_, _, _)
Recompose(d, bits, i) ==
    IF i > Len(d) THEN u32_zero
    ELSE wrapping_add(shl(as_u32(d[i]), TOTAL - i * bits), Recompose(d, bits, i + 1))

\* the distance on the torus between two words: the magnitude of the
\* wrapped difference read as a signed number
TorusDistance(a, b) ==
    LET diff == wrapping_sub(a, b)
    IN  IF diff[1] >= 2^15 THEN wrapping_sub(u32_zero, diff) ELSE diff

WithinRoundingBound(u, d, L, bits) ==
    u32_ge(shl(u32_one, TOTAL - L * bits), TorusDistance(u, Recompose(d, bits, 1)))

\* C2: for every torus value and every (L, bits) with L*bits <= 32 the signed
\* digits returned by decompose<L>(t, bits) reconstruct t within 2^(32 - L*bits)
\* on the torus.
C2_Reconstructs ==
    (Returned("decomposition_i32") /\ call.L * call.bits <= BITS)
        => WithinRoundingBound(call.self, ret.val, call.L, call.bits)

\* d lies in [-2^(bits-1), 2^(bits-1)); for bits = 32 that is all of i32
InDigitRange(d, bits) ==
    IF bits >= BITS THEN d >= i32_MIN /\ d <= i32_MAX
    ELSE d \div 2^(bits - 1) \in {-1, 0}

\* C3: every digit returned by decompose<L>(t, bits), L*bits <= 32, lies in
\* [-2^(bits-1), 2^(bits-1)), bits = 31 and bits = 32 included, also when a
\* carry was added to the digit before it was classified.
C3_DigitsInRange ==
    (Returned("decomposition_i32") /\ call.L * call.bits <= BITS)
        => /\ Len(ret.val) = call.L
           /\ \A i \in 1..call.L : InDigitRange(ret.val[i], call.bits)

\* tests::decimal_decomposition test5: the carry out of the last digit turns
\* the middle digit 100000 into 100001, and the carry out of the middle digit
\* turns the first digit 011111 into 100000
C3_Witness ==
    /\ Returned("decomposition_i32")
    /\ call.self = U32(32264, 128) /\ call.L = 3 /\ call.bits = 6
    /\ ret.val = <<-32, -31, -32>>

\* C6: (a + b) + (-b) = a on the inner words, and add, sub and neg return for
\* every operand pair.
C6_AddNegCancels ==
    /\ Returned("add") => Add(ret.val, Neg(call.rhs)) = call.self
    /\ Returned("sub") => ret.val = Add(call.self, Neg(call.rhs))
    /\ Returned("neg") => Add(call.self, ret.val) = u32_zero
    /\ (ret.done /\ call.op \in {"add", "sub", "neg"}) => ~ret.panic

\* 0xFFFFFFFF + 0xFFFFFFFF wraps to 0xFFFFFFFE
C6_Witness ==
    /\ Returned("add")
    /\ call.self = u32_MAX /\ call.rhs = u32_MAX
    /\ ret.val = U32(B16 - 1, B16 - 2)

\* the word of |k| for a negative i32 k (2^31 for k = -2^31)
MagnitudeWord(k) == wrapping_sub(u32_zero, as_u32(k))

\* C7: t * k for an i32 k never aborts, k = -2^31 and k = 0 included, its word
\* is (u * k) mod 2^32, and for negative k it is the wrapping negation of
\* t * |k|.
C7_MulI32Total ==
    (call.op = "mul_i32" /\ ret.done)
        => /\ ~ret.panic
           /\ ret.val = wrapping_mul(call.self, as_u32(call.rhs))
           /\ call.rhs < 0
                => ret.val = wrapping_sub(u32_zero, wrapping_mul(call.self, MagnitudeWord(call.rhs)))

\* floor(frac(x) * 2^32) for x = num / 2^exp
FloorFrac32(val) ==
    LET m == val.num % 2^val.exp
    IN  IF val.exp = 0 THEN u32_zero ELSE shl(u32_of(m), BITS - val.exp)

\* C8: for a dyadic rational x, from_real(x) has the inner word
\* floor(frac(x) * 2^32), by the f32 and by the f64 constructor.
C8_FromRealExact ==
    (Returned("from_f32") \/ Returned("from_f64")) => ret.val = FloorFrac32(call.val)

\* C19: a torus decomposition (decomposition_u32, decomposition_i32, the
\* polynomial decomposition) called with L*bits > 32 aborts and never returns
\* a digit array.
C19_OversizeAborts ==
    (call.op \in {"decomposition_u32", "decomposition_i32", "decomposition"}
        /\ ret.done /\ call.L * call.bits > BITS)
        => ret.panic

\* C20: the signed decomposition of 0x80000001 into L = 31 digits of 1 bit is
\* [-1, 0, ..., 0, -1].
C20_AsClaimed ==
    (Returned("decomposition_i32") /\ call.self = U32(2^15, 1)
        /\ call.L = 31 /\ call.bits = 1)
        => ret.val = [i \in 1..31 |-> IF i \in {1, 31} THEN -1 ELSE 0]

\* C20 as amended: the signed decomposition of 0x80000001 into L = 31 digits
\* of 1 bit is [0, -1, ..., -1]: first digit 0, the 30 digits after it -1.
C20_CarryChain ==
    (Returned("decomposition_i32") /\ call.self = U32(2^15, 1)
        /\ call.L = 31 /\ call.bits = 1)
        => ret.val = [i \in 1..31 |-> IF i = 1 THEN 0 ELSE -1]

C20_Witness ==
    /\ Returned("decomposition_i32")
    /\ call.self = U32(2^15, 1) /\ call.L = 31 /\ call.bits = 1
    /\ call.profile = "debug"
    /\ ret.val[1] = 0 /\ ret.val[2] = -1 /\ ret.val[31] = -1

(***************************************************************************)
(* Polynomial<T, N>: the sequence of its N coefficients, coefficient i of  *)
(* the source (0-based) at position i + 1.  kind names the coefficient     *)
(* type T: "int" for i32 (rhs of type i32), "torus" for Decimal<u32> (rhs  *)
(* of type i32).  The i32 coefficients of the model are small, so that no  *)
(* i32 operation on them overflows.                                        *)
(***************************************************************************)
coef_(self, i) == self[i + 1]

zero_T(kind) == IF kind = "int" THEN 0 ELSE u32_zero
add_T(kind, x, y) == IF kind = "int" THEN x + y ELSE Add(x, y)
sub_T(kind, x, y) == IF kind = "int" THEN x - y ELSE Sub(x, y)
neg_T_dropped(kind, x) == x
neg_T(kind, x) == IF kind = "int" THEN 0 - x ELSE Neg(x)
\* MulAdd: self * a + b.  The i32 factors of the model are never i32::MIN, so
\* Decimal * i32 returns the same word under both profiles.
mul_add_T(kind, self, a, b) ==
    IF kind = "int" THEN self * a + b
    ELSE Add(Mul_i32("release", self, a).val, b)

\* the fold of convolution over j = j..r_lim, with accumulator t
RECURSIVE convolution_fold(_, _, _, _, _, _, _)
convolution_fold(kind, l, r, k, j, r_lim, t) ==
    IF j > r_lim THEN t
    ELSE convolution_fold(kind, l, r, k, j + 1, r_lim,
                          mul_add_T(kind, coef_(l, k - j), coef_(r, j), t))

min(x, y) == IF x <= y THEN x ELSE y

convolution(kind, l, r, k) ==
    LET N == Len(l)
        l_lim == IF k >= N - 1 THEN k - (N - 1) ELSE 0
        r_lim == min(k, N - 1)
    IN  convolution_fold(kind, l, r, k, l_lim, r_lim, zero_T(kind))

\* coefficient `sum` of cross
cross_coef_unreduced(kind, self, rhs, sum) == convolution(kind, self, rhs, sum)
cross_coef(kind, self, rhs, sum) ==
    LET N == Len(self)
    IN  IF sum < N - 1
        THEN sub_T(kind, convolution(kind, self, rhs, sum),
                         convolution(kind, self, rhs, N + sum))
        ELSE convolution(kind, self, rhs, sum)

cross(kind, self, rhs) ==
    [s \in 1..Len(self) |-> cross_coef(kind, self, rhs, s - 1)]

\* coefficient k of self.mul_add(a, b)
mul_add_coef_unreduced(kind, self, a, b, k) ==
    add_T(kind, coef_(b, k), convolution(kind, self, a, k))
mul_add_coef(kind, self, a, b, k) ==
    LET N == Len(self)
    IN  add_T(kind, coef_(b, k),
              IF k < N - 1
              THEN sub_T(kind, convolution(kind, self, a, k),
                               convolution(kind, self, a, k + N))
              ELSE convolution(kind, self, a, k))

mul_add(kind, self, a, b) ==
    [k \in 1..Len(self) |-> mul_add_coef(kind, self, a, b, k - 1)]

PolyAdd(kind, self, rhs) ==
    [i \in 1..Len(self) |-> add_T(kind, self[i], rhs[i])]

PolyNeg(kind, self) == [i \in 1..Len(self) |-> neg_T(kind, self[i])]

\* Integer::mod_floor for a positive modulus
mod_floor_of_magnitude(n, m) ==
    LET r == n % m
    IN  IF n < 0 /\ r # 0 THEN m - r ELSE r
mod_floor_half_modulus(n, m) == n % (m \div 2)
mod_floor(n, m) == n % m

rotate(kind, self, n) ==
    LET N == Len(self)
        k == mod_floor(n, 2 * N)
    IN  IF k <= N
        THEN [j \in 1..N |->
                LET i == j - 1
                IN  IF i < k THEN neg_T(kind, coef_(self, N + i - k))
                    ELSE coef_(self, i - k)]
        ELSE LET kk == 2 * N - k
             IN  [j \in 1..N |->
                    LET i == j - 1
                    IN  IF i + kk >= N THEN neg_T(kind, coef_(self, i + kk - N))
                        ELSE coef_(self, kk + i)]

(***************************************************************************)
(* Invocations of the polynomial operations.                               *)
(***************************************************************************)
MaxN == 3
MaxCoef == 1

Lengths == 1..MaxN
IntCoefs == (0 - MaxCoef)..MaxCoef
RhsCoefs == {-1, 0, 2}
TorusCoefs == {U32(2^15, 0), U32(2^14, 0), U32(B16 - 1, B16 - 1)}

Polys(S, N) == [1..N -> S]

\* addends whose coefficients differ from position to position
IntAddends(N) == {[i \in 1..N |-> v * i] : v \in IntCoefs \ {0}}
TorusAddends(N) == {[i \in 1..N |-> U32(2^13 * i, B16 - i)], [i \in 1..N |-> U32(B16 - i, i)]}

RotateAmounts == ((0 - 2 * MaxN - 1)..(2 * MaxN + 1)) \cup {i32_MIN, i32_MAX, -10, 10}

PolyInit ==
    /\ FftInit
    /\ ret = Idle
    /\ \/ \E N \in Lengths : \E a \in Polys(IntCoefs, N), b \in Polys(RhsCoefs, N) :
            call = [op |-> "cross", kind |-> "int", self |-> a, rhs |-> b]
       \/ \E N \in Lengths : \E a \in Polys(TorusCoefs, N), b \in Polys(RhsCoefs, N) :
            call = [op |-> "cross", kind |-> "torus", self |-> a, rhs |-> b]
       \/ call = [op |-> "cross", kind |-> "int", self |-> <<2, 3, 4>>, rhs |-> <<4, 5, 6>>]
       \/ \E N \in Lengths : \E a \in Polys(IntCoefs, N), b \in Polys(RhsCoefs, N), c \in IntAddends(N) :
            call = [op |-> "mul_add", kind |-> "int", self |-> a, a |-> b, b |-> c]
       \/ \E N \in Lengths : \E a \in Polys(TorusCoefs, N), b \in Polys(RhsCoefs, N), c \in TorusAddends(N) :
            call = [op |-> "mul_add", kind |-> "torus", self |-> a, a |-> b, b |-> c]
       \/ call = [op |-> "mul_add", kind |-> "int", self |-> <<2, 3, 4>>, a |-> <<4, 5, 6>>, b |-> <<1, 1, 1>>]
       \/ \E N \in Lengths : \E a \in Polys(IntCoefs, N) \cup {[i \in 1..N |-> i]}, n \in RotateAmounts :
            call = [op |-> "rotate", kind |-> "int", self |-> a, n |-> n]
       \/ \E n \in RotateAmounts :
            call = [op |-> "rotate", kind |-> "int", self |-> <<1, 2, 3, 4, 5>>, n |-> n]

Cross ==
    /\ ~ret.done /\ call.op = "cross"
    /\ ret' = Returns(cross(call.kind, call.self, call.rhs))
    /\ UNCHANGED <<call, FFT_MAP, threads>>

MulAdd ==
    /\ ~ret.done /\ call.op = "mul_add"
    /\ ret' = Returns(mul_add(call.kind, call.self, call.a, call.b))
    /\ UNCHANGED <<call, FFT_MAP, threads>>

Rotate ==
    /\ ~ret.done /\ call.op = "rotate"
    /\ ret' = Returns(rotate(call.kind, call.self, call.n))
    /\ UNCHANGED <<call, FFT_MAP, threads>>

PolyNext ==
    \/ Cross
    \/ MulAdd
    \/ Rotate

SpecPoly == PolyInit /\ [][PolyNext]_vars

(***************************************************************************)
(* Claims about polynomials.                                               *)
(***************************************************************************)
\* the contribution of a[i] to coefficient s of a*b mod X^N + 1 (0-based)
NegacyclicTerm(a, b, s, i) ==
    LET N == Len(a)
    IN  IF s - i >= 0 THEN a[i + 1] * b[s - i + 1]
        ELSE 0 - a[i + 1] * b[s + N - i + 1]

RECURSIVE NegacyclicSum(_, _, _, _)
NegacyclicSum(a, b, s, i) ==
    IF i >= Len(a) THEN 0
    ELSE NegacyclicTerm(a, b, s, i) + NegacyclicSum(a, b, s, i + 1)

\* C1: for integer polynomials of length N >= 1, cross(a, b)[s] is the sum of
\* a[i]*b[j] over i + j = s minus the sum of a[i]*b[j] over i + j = s + N.
C1_CrossIsNegacyclicProduct ==
    (Returned("cross") /\ call.kind = "int")
        => /\ Len(ret.val) = Len(call.self)
           /\ \A s \in 0..(Len(call.self) - 1) :
                ret.val[s + 1] = NegacyclicSum(call.self, call.rhs, s, 0)

\* tests::polynomial_cross: [2,3,4] x [4,5,6] = [-30,-2,43]
C1_Witness ==
    /\ Returned("cross") /\ call.kind = "int"
    /\ call.self = <<2, 3, 4>> /\ call.rhs = <<4, 5, 6>>
    /\ ret.val = <<-30, -2, 43>>

\* the monomial X^k for k < N, -X^(k-N) for N <= k < 2N
Monomial(N, k) ==
    [j \in 1..N |-> IF j - 1 = k THEN 1 ELSE IF j - 1 = k - N THEN -1 ELSE 0]

\* C4: rotate(p, n) = X^n * p in Z[X]/(X^N+1): with k = n mod 2N in [0, 2N)
\* it equals cross(p, m), m the monomial X^k (k < N) or -X^(k-N) (k >= N).
C4_RotateIsMonomialProduct ==
    Returned("rotate")
        => LET N == Len(call.self)
           IN  ret.val = cross("int", call.self, Monomial(N, call.n % (2 * N)))

\* tests::polynomial_rotate: a negative amount
C4_Witness ==
    /\ Returned("rotate")
    /\ call.self = <<1, 2, 3, 4, 5>> /\ call.n = -3
    /\ ret.val = <<4, 5, -1, -2, -3>>

\* C5: mul_add(a, b, c) = cross(a, b) + c, coefficient by coefficient, for
\* integer and for torus coefficients.
C5_MulAddIsCrossPlus ==
    Returned("mul_add")
        => ret.val = PolyAdd(call.kind, cross(call.kind, call.self, call.a), call.b)

\* an invocation on torus coefficients whose reduction acts (N = 2)
C5_Witness ==
    /\ Returned("mul_add") /\ call.kind = "torus"
    /\ call.self = <<U32(2^15, 0), U32(2^14, 0)>> /\ call.a = <<2, 2>>
    /\ call.b = <<U32(B16 - 1, 1), U32(B16 - 2, 2)>>
    /\ ret.val = <<U32(2^15 - 1, 1), U32(2^15 - 2, 2)>>

\* C12: for a polynomial a of length N >= 1 and an i32 n with n + 2N
\* representable, rotate(a, n + 2N) = rotate(a, n); rotate(a, 0) = a and
\* rotate(a, 2N) = a.
C12_RotatePeriod ==
    Returned("rotate")
        => LET N == Len(call.self)
           IN  /\ call.n <= i32_MAX - 2 * N
                    => rotate(call.kind, call.self, call.n + 2 * N) = ret.val
               /\ call.n \in {0, 2 * N} => ret.val = call.self

\* tests::polynomial_rotate: rotate(10) on length 5
C12_Witness ==
    /\ Returned("rotate")
    /\ call.self = <<1, 2, 3, 4, 5>> /\ call.n = 10
    /\ ret.val = <<1, 2, 3, 4, 5>>

\* C13: rotate(a, N) = -a and rotate(a, -N) = -a: every coefficient negated,
\* none moved.
C13_RotateByLength ==
    Returned("rotate")
        => LET N == Len(call.self)
           IN  call.n \in {N, 0 - N}
                    => ret.val = [i \in 1..N |-> 0 - call.self[i]]

\* the doc example of rotate: rotate(3) on [1,2,3]
C13_Witness ==
    /\ Returned("rotate")
    /\ call.self = <<1, 2, 3>> /\ call.n = 3
    /\ ret.val = <<-1, -2, -3>>

(***************************************************************************)
(* Claims about fft_cross / fft_mul_add and the plan cache.                *)
(***************************************************************************)
\* both plans for polynomials of length N are in the cache
Cached(N) ==
    /\ FFT_MAP.map_f[N_half(N)] # None
    /\ FFT_MAP.map_i[N_half(N)] # None

\* thread t has exclusive access to the cache although both of its lookups
\* found their plan cached
ExclusiveWithoutInstall(t) ==
    /\ FFT_MAP.writer = t
    /\ threads[t].pc \in {"inverse", "output"}
    /\ threads[t].installs = 0

\* thread t is kept waiting for the cache by thread u
WaitsFor(t, u) ==
    t # u /\ threads[t].pc = "write" /\ FFT_MAP.writer = u

\* C15: the cache admits concurrent readers: a call whose plans are cached is
\* never kept waiting by another call whose plans were cached, and exclusive
\* access is taken only by a call that installs a new plan on a miss.
C15_ConcurrentReaders ==
    /\ \A t \in Threads : ~ExclusiveWithoutInstall(t)
    /\ \A t, u \in Threads :
         (WaitsFor(t, u) /\ Cached(threads[t].N)) => ~ExclusiveWithoutInstall(u)

\* the plans of all cached sizes, of both directions
CachedPlans(m) ==
    ({m.map_f[n] : n \in PlanSizes} \cup {m.map_i[n] : n \in PlanSizes}) \ {None}

\* C16: in every interleaving, a plan is constructed only for a size and
\* direction not cached yet, an installed plan is never removed or replaced,
\* every request gets the installed plan of its size, and the cache holds at
\* most one forward and one inverse plan per size, each a plan of its own.
C16_PlanCacheGrows ==
    [][/\ \A n \in PlanSizes :
            /\ FFT_MAP.map_f[n] # None => FFT_MAP'.map_f[n] = FFT_MAP.map_f[n]
            /\ FFT_MAP.map_i[n] # None => FFT_MAP'.map_i[n] = FFT_MAP.map_i[n]
       /\ FFT_MAP'.planned = Cardinality(CachedPlans(FFT_MAP'))
       /\ \A n \in PlanSizes :
            /\ FFT_MAP'.map_f[n] # None
                 => FFT_MAP'.map_f[n].n = n /\ ~FFT_MAP'.map_f[n].inverse
            /\ FFT_MAP'.map_i[n] # None
                 => FFT_MAP'.map_i[n].n = n /\ FFT_MAP'.map_i[n].inverse
       /\ \A t \in Threads :
            /\ threads'[t].polfft # None
                 => threads'[t].polfft = FFT_MAP'.map_f[N_half(threads'[t].N)]
            /\ threads'[t].polifft # None
                 => threads'[t].polifft = FFT_MAP'.map_i[N_half(threads'[t].N)]
      ]_vars

\* thread 1 installed the plans of size 1 and thread 2, calling later, got
\* the same two plans without installing any
C16_Witness ==
    /\ threads[1].pc = "returned" /\ threads[1].N = 2 /\ threads[1].installs = 2
    /\ threads[2].pc = "returned" /\ threads[2].N = 2 /\ threads[2].installs = 0
    /\ threads[2].polfft = threads[1].polfft /\ threads[2].polfft.id = 1
    /\ threads[2].polifft = threads[1].polifft /\ threads[2].polifft.id = 2

\* C17: obtaining the cache never fails: no call with even N ends in the
\* panic of the lock acquisition, also after a call on another thread
\* panicked while it held the cache.
C17_AcquisitionNeverFails ==
    \A t \in Threads :
        (threads[t].N >= 2 /\ threads[t].N % 2 = 0)
            => threads[t].ret # PanicWith("PoisonError")

\* C18: a call with odd N (N = 1 included) aborts; a call with even N >= 2
\* returns a polynomial of length N, without aborting and with every
\* coefficient and buffer slot it reads in range.
C18_AbortsExactlyOnOddN ==
    \A t \in Threads :
        threads[t].ret.done
            => IF threads[t].N % 2 = 1 THEN threads[t].ret.panic
               ELSE /\ ~threads[t].ret.panic
                    /\ Len(threads[t].ret.val) = threads[t].N
                    /\ \A j \in 1..threads[t].N :
                         threads[t].ret.val[j][2] < N_half(threads[t].N)
                    /\ \A i \in coef_reads(threads[t].N) : i < threads[t].N

(***************************************************************************)
(* nander: Logip, LogicExpr, the parser and the evaluator.                 *)
(*                                                                         *)
(* The leaf type R is {0, 1} with logic_false = 0 and logic_true = 1, and  *)
(* the Logip is the one whose nand is the boolean NAND.  A Logip method    *)
(* returns its value together with the sequence of the nand calls it made, *)
(* each call the pair <<lhs, rhs>> of its arguments, in the order made.    *)
(***************************************************************************)
logic_false == 0
logic_true == 1

nand(lhs, rhs) ==
    [val |-> 1 - lhs * rhs, calls |-> <<<<lhs, rhs>>>>]

not(b) == nand(b, b)

and(lhs, rhs) ==
    LET x == nand(lhs, rhs)
        y == not(x.val)
    IN  [val |-> y.val, calls |-> x.calls \o y.calls]

or_without_not(lhs, rhs) == nand(lhs, rhs)
or(lhs, rhs) ==
    LET l == not(lhs)
        r == not(rhs)
        y == nand(l.val, r.val)
    IN  [val |-> y.val, calls |-> l.calls \o r.calls \o y.calls]

xor(lhs, rhs) ==
    LET x == nand(lhs, rhs)
        l == nand(lhs, x.val)
        r == nand(x.val, rhs)
        y == nand(l.val, r.val)
    IN  [val |-> y.val, calls |-> x.calls \o l.calls \o r.calls \o y.calls]

(***************************************************************************)
(* LogicExpr: <<"Leaf", v>>, <<"Not", e>>, and <<tag, e0, e1>> for the     *)
(* binary tags, e0 and e1 the first and the second field of the variant.   *)
(* The evaluator evaluates the arguments of a method call from left to     *)
(* right; its Nand arm binds the first field to `rhs` and the second to    *)
(* `lhs`.                                                                  *)
(***************************************************************************)
\* The evaluator also returns `at`, which names for every nand call of
\* `calls` the node whose method made it: the path of the node from the root
\* of the tree (0 for the first field of a variant, 1 for the second) and the
\* method.
made_by(method, y) == [i \in 1..Len(y.calls) |-> <<<<>>, method>>]

under(field, at) == [i \in 1..Len(at) |-> <<<<field>> \o at[i][1], at[i][2]>>]

\* the arguments of a call are evaluated from left to right
args_right_to_left(first, second) == second \o first
args_in_order(first, second) == first \o second

RECURSIVE eval_logic_expr(_)
eval_logic_expr(exp) ==
    IF exp[1] = "Leaf" THEN [val |-> exp[2], calls |-> <<>>, at |-> <<>>]
    ELSE IF exp[1] = "Not"
    THEN LET lhs == eval_logic_expr(exp[2])
             y == not(lhs.val)
         IN  [val |-> y.val, calls |-> lhs.calls \o y.calls,
              at |-> under(0, lhs.at) \o made_by("not", y)]
    ELSE IF exp[1] = "Nand"
    THEN LET lhs == eval_logic_expr(exp[3])
             rhs == eval_logic_expr(exp[2])
             y == nand(lhs.val, rhs.val)
         IN  [val |-> y.val,
              calls |-> args_in_order(lhs.calls, rhs.calls) \o y.calls,
              at |-> args_in_order(under(1, lhs.at), under(0, rhs.at))
                        \o made_by("nand", y)]
    ELSE LET lhs == eval_logic_expr(exp[2])
             rhs == eval_logic_expr(exp[3])
             y == IF exp[1] = "And" THEN and(lhs.val, rhs.val)
                  ELSE IF exp[1] = "Or" THEN or(lhs.val, rhs.val)
                  ELSE xor(lhs.val, rhs.val)
             method == IF exp[1] = "And" THEN "and"
                       ELSE IF exp[1] = "Or" THEN "or" ELSE "xor"
         IN  [val |-> y.val,
              calls |-> args_in_order(lhs.calls, rhs.calls) \o y.calls,
              at |-> args_in_order(under(0, lhs.at), under(1, rhs.at))
                        \o made_by(method, y)]

(***************************************************************************)
(* The parser.  The input is a sequence of characters; a parsing function  *)
(* returns [ok, expr, err, rest]: the Result and the characters the        *)
(* iterator has left.                                                      *)
(***************************************************************************)
ZERO == "0"
ONE == "1"
AND == "&"
OR == "|"
XOR == "^"
NOT == "!"
NAND == "$"
LEFT == "("
RIGHT == ")"

is_whitespace(c) == c \in {" ", "\t", "\n"}

RECURSIVE retain_non_whitespace(_)
retain_non_whitespace(l) ==
    IF l = <<>> THEN <<>>
    ELSE IF is_whitespace(Head(l)) THEN retain_non_whitespace(Tail(l))
    ELSE <<Head(l)>> \o retain_non_whitespace(Tail(l))

ParseOk(e, rest) == [ok |-> TRUE, expr |-> e, err |-> "", rest |-> rest]
ParseErr_one_message(msg, rest) ==
    [ok |-> FALSE, expr |-> <<>>, err |-> "invalid element", rest |-> rest]
ParseErr(msg, rest) == [ok |-> FALSE, expr |-> <<>>, err |-> msg, rest |-> rest]

\* the node parse_binary_op builds for the operator character c
binary_node_or_as_and(c, lhs, rhs) ==
    IF c = AND \/ c = OR THEN <<"And", lhs, rhs>>
    ELSE IF c = XOR THEN <<"Xor", lhs, rhs>>
    ELSE <<"Nand", lhs, rhs>>
binary_node(c, lhs, rhs) ==
    IF c = AND THEN <<"And", lhs, rhs>>
    ELSE IF c = OR THEN <<"Or", lhs, rhs>>
    ELSE IF c = XOR THEN <<"Xor", lhs, rhs>>
    ELSE <<"Nand", lhs, rhs>>

RECURSIVE parse_binary_op(_), parse_binary_loop(_, _), parse_mono_op(_), parse_elem(_)

parse_elem(l) ==
    IF l = <<>> THEN ParseErr("invalid element. this is none", l)
    ELSE LET c == Head(l)
             l1 == Tail(l)
         IN  IF c = ZERO THEN ParseOk(<<"Leaf", logic_false>>, l1)
             ELSE IF c = ONE THEN ParseOk(<<"Leaf", logic_true>>, l1)
             ELSE IF c = LEFT
             THEN LET e == parse_binary_op(l1)
                  IN  IF ~e.ok THEN e
                      ELSE IF e.rest # <<>> /\ Head(e.rest) = RIGHT
                      THEN ParseOk(e.expr, Tail(e.rest))
                      ELSE ParseErr("braket is not closed",
                                    IF e.rest = <<>> THEN <<>> ELSE Tail(e.rest))
             ELSE ParseErr("invalid element", l1)

parse_mono_op(l) ==
    IF l # <<>> /\ Head(l) = NOT
    THEN LET e == parse_mono_op(Tail(l))
         IN  IF ~e.ok THEN e ELSE ParseOk(<<"Not", e.expr>>, e.rest)
    ELSE parse_elem(l)

\* the loop of parse_binary_op, with the tree built so far
parse_binary_loop(lhs, l) ==
    IF l = <<>> THEN ParseOk(lhs, l)
    ELSE IF Head(l) \in {AND, OR, XOR, NAND}
    THEN LET e == parse_mono_op(Tail(l))
         IN  IF ~e.ok THEN e
             ELSE parse_binary_loop(binary_node(Head(l), lhs, e.expr), e.rest)
    ELSE ParseOk(lhs, l)

parse_binary_op(l) ==
    LET lhs == parse_mono_op(l)
    IN  IF ~lhs.ok THEN lhs ELSE parse_binary_loop(lhs.expr, lhs.rest)

parse_logic_expr(l) == parse_binary_op(retain_non_whitespace(l))

(***************************************************************************)
(* Invocations of the logic layer.  The source texts are the well-formed   *)
(* expressions of at most MaxLen characters, each taken as it is and with  *)
(* one whitespace character put at any position.  A well-formed expression *)
(* is given by its derivation in the grammar                               *)
(*     expr ::= mono | expr op mono       op one of & | ^ $                *)
(*     mono ::= ! mono | 0 | 1 | ( expr )                                  *)
(* written <<"lit", v>>, <<"not", m>>, <<"par", e>>, <<"bin", op, e, m>>.  *)
(***************************************************************************)
MaxLen == 7

BinaryOps == {AND, OR, XOR, NAND}

RECURSIVE MonoOfLen(_), ExprOfLen(_)
MonoOfLen(n) ==
    IF n < 1 THEN {}
    ELSE IF n = 1 THEN {<<"lit", 0>>, <<"lit", 1>>}
    ELSE {<<"not", m>> : m \in MonoOfLen(n - 1)}
         \cup {<<"par", e>> : e \in ExprOfLen(n - 2)}

ExprOfLen(n) ==
    IF n < 1 THEN {}
    ELSE MonoOfLen(n)
         \cup UNION {{<<"bin", op, e, m>> :
                        op \in BinaryOps, e \in ExprOfLen(k), m \in MonoOfLen(n - 1 - k)} :
                     k \in 1..(n - 2)}

RECURSIVE Unparse(_)
Unparse(t) ==
    IF t[1] = "lit" THEN IF t[2] = 0 THEN <<ZERO>> ELSE <<ONE>>
    ELSE IF t[1] = "not" THEN <<NOT>> \o Unparse(t[2])
    ELSE IF t[1] = "par" THEN <<LEFT>> \o Unparse(t[2]) \o <<RIGHT>>
    ELSE Unparse(t[3]) \o <<t[2]>> \o Unparse(t[4])

WithWhitespace(l, w, p) == SubSeq(l, 1, p) \o <<w>> \o SubSeq(l, p + 1, Len(l))

Spellings(t) ==
    LET l == Unparse(t)
    IN  {l} \cup {WithWhitespace(l, " ", p) : p \in 0..Len(l)}
            \cup {WithWhitespace(WithWhitespace(l, "\t", 0), "\n", Len(l) + 1)}

Bits == {logic_false, logic_true}

\* any text of at most MaxText characters, well formed or not; such a call
\* carries no derivation (syn = <<>>)
MaxText == 4

Alphabet == {ZERO, ONE, AND, NAND, NOT, LEFT, RIGHT, "x", " "}

RECURSIVE TextsOfLen(_)
TextsOfLen(n) ==
    IF n = 0 THEN {<<>>}
    ELSE {<<c>> \o l : c \in Alphabet, l \in TextsOfLen(n - 1)}

LogicInit ==
    /\ FftInit
    /\ ret = Idle
    /\ \/ \E n \in 1..MaxLen : \E t \in ExprOfLen(n) : \E l \in Spellings(t) :
            call = [op |-> "parse_logic_expr", l |-> l, syn |-> t]
       \/ \E n \in 0..MaxText : \E l \in TextsOfLen(n) :
            call = [op |-> "parse_logic_expr", l |-> l, syn |-> <<>>]
       \/ \E b \in Bits : call = [op |-> "not", b |-> b]
       \/ \E lhs \in Bits, rhs \in Bits, op \in {"nand", "and", "or", "xor"} :
            call = [op |-> op, lhs |-> lhs, rhs |-> rhs]

ParseLogicExpr ==
    /\ ~ret.done /\ call.op = "parse_logic_expr"
    /\ ret' = Returns(parse_logic_expr(call.l))
    /\ UNCHANGED <<call, FFT_MAP, threads>>

\* the caller hands the tree of a successful parse to the evaluator
EvalLogicExpr ==
    /\ ret.done /\ call.op = "parse_logic_expr" /\ ret.val.ok
    /\ call' = [op |-> "eval_logic_expr", l |-> call.l, syn |-> call.syn,
                exp |-> ret.val.expr]
    /\ ret' = Returns(eval_logic_expr(ret.val.expr))
    /\ UNCHANGED <<FFT_MAP, threads>>

LogipNand ==
    /\ ~ret.done /\ call.op = "nand"
    /\ ret' = Returns(nand(call.lhs, call.rhs))
    /\ UNCHANGED <<call, FFT_MAP, threads>>

LogipNot ==
    /\ ~ret.done /\ call.op = "not"
    /\ ret' = Returns(not(call.b))
    /\ UNCHANGED <<call, FFT_MAP, threads>>

LogipAnd ==
    /\ ~ret.done /\ call.op = "and"
    /\ ret' = Returns(and(call.lhs, call.rhs))
    /\ UNCHANGED <<call, FFT_MAP, threads>>

LogipOr ==
    /\ ~ret.done /\ call.op = "or"
    /\ ret' = Returns(or(call.lhs, call.rhs))
    /\ UNCHANGED <<call, FFT_MAP, threads>>

LogipXor ==
    /\ ~ret.done /\ call.op = "xor"
    /\ ret' = Returns(xor(call.lhs, call.rhs))
    /\ UNCHANGED <<call, FFT_MAP, threads>>

LogicNext ==
    \/ ParseLogicExpr
    \/ EvalLogicExpr
    \/ LogipNand
    \/ LogipNot
    \/ LogipAnd
    \/ LogipOr
    \/ LogipXor

SpecLogic == LogicInit /\ [][LogicNext]_vars

(***************************************************************************)
(* Claims about the logic layer.                                           *)
(***************************************************************************)
BoolNand(a, b) == IF a = 1 /\ b = 1 THEN 0 ELSE 1
BoolAnd(a, b) == IF a = 1 /\ b = 1 THEN 1 ELSE 0
BoolOr(a, b) == IF a = 1 \/ b = 1 THEN 1 ELSE 0
BoolXor(a, b) == IF a # b THEN 1 ELSE 0
BoolNot(a) == IF a = 1 THEN 0 ELSE 1

\* the value of a derivation: ! binds tighter than the binary operators,
\* which have equal precedence and associate to the left
RECURSIVE Value(_)
Value(t) ==
    IF t[1] = "lit" THEN t[2]
    ELSE IF t[1] = "not" THEN BoolNot(Value(t[2]))
    ELSE IF t[1] = "par" THEN Value(t[2])
    ELSE IF t[2] = AND THEN BoolAnd(Value(t[3]), Value(t[4]))
    ELSE IF t[2] = OR THEN BoolOr(Value(t[3]), Value(t[4]))
    ELSE IF t[2] = XOR THEN BoolXor(Value(t[3]), Value(t[4]))
    ELSE BoolNand(Value(t[3]), Value(t[4]))

\* C9: for every well-formed expression, with or without whitespace, parse
\* succeeds and eval of the parsed tree under the boolean NAND is the value of
\* the expression read with ! binding tightest and the binary operators of
\* equal precedence, associating to the left.
C9_EvalOfParseIsValue ==
    /\ (call.op = "parse_logic_expr" /\ call.syn # <<>> /\ ret.done)
            => (~ret.panic /\ ret.val.ok)
    /\ (Returned("eval_logic_expr") /\ call.syn # <<>>)
            => ret.val.val = Value(call.syn)

\* "1 |0&0" is (1|0)&0 = 0
C9_Witness ==
    /\ Returned("eval_logic_expr")
    /\ call.l = <<"1", " ", "|", "0", "&", "0">>
    /\ ret.val.val = 0

\* C10: under the boolean NAND the default methods compute NOT, AND, OR and XOR
\* and make exactly the nand calls not(x) = nand(x,x), and = not(nand(a,b)),
\* or = nand(not(a),not(b)), xor = nand(nand(a,m),nand(m,b)) with m = nand(a,b).
C10_DefaultMethods ==
    /\ Returned("nand") => ret.val.val = BoolNand(call.lhs, call.rhs)
    /\ Returned("not")
        => /\ ret.val.val = BoolNot(call.b)
           /\ ret.val.calls = <<<<call.b, call.b>>>>
    /\ Returned("and")
        => LET m == BoolNand(call.lhs, call.rhs)
           IN  /\ ret.val.val = BoolAnd(call.lhs, call.rhs)
               /\ ret.val.calls = <<<<call.lhs, call.rhs>>, <<m, m>>>>
    /\ Returned("or")
        => LET l == BoolNand(call.lhs, call.lhs)
               r == BoolNand(call.rhs, call.rhs)
           IN  /\ ret.val.val = BoolOr(call.lhs, call.rhs)
               /\ ret.val.calls = <<<<call.lhs, call.lhs>>, <<call.rhs, call.rhs>>, <<l, r>>>>
    /\ Returned("xor")
        => LET m == BoolNand(call.lhs, call.rhs)
               l == BoolNand(call.lhs, m)
               r == BoolNand(m, call.rhs)
           IN  /\ ret.val.val = BoolXor(call.lhs, call.rhs)
               /\ ret.val.calls = <<<<call.lhs, call.rhs>>, <<call.lhs, m>>,
                                    <<m, call.rhs>>, <<l, r>>>>

\* or(0, 1) = 1 through nand(0,0), nand(1,1), nand(1,0)
C10_Witness ==
    /\ Returned("or") /\ call.lhs = 0 /\ call.rhs = 1
    /\ ret.val.val = 1
    /\ ret.val.calls = <<<<0, 0>>, <<1, 1>>, <<1, 0>>>>

\* the nand calls one application of a Logip method makes
CallsOf(method) ==
    IF method \in {"not", "nand"} THEN 1
    ELSE IF method = "and" THEN 2
    ELSE IF method = "or" THEN 3
    ELSE 4

MethodOf(op) ==
    IF op = AND THEN "and" ELSE IF op = OR THEN "or"
    ELSE IF op = XOR THEN "xor" ELSE "nand"

Block(p, method) == [i \in 1..CallsOf(method) |-> <<p, method>>]

\* The order of the nand calls of a post-order visit of the derivation t,
\* whose tree stands at path p: one method per operator, after the calls of
\* its operands; the left operand (first field) before the right one (second
\* field), the right one before the left one for $.  Brackets make no node.
RECURSIVE PostOrder(_, _)
PostOrder(t, p) ==
    IF t[1] = "lit" THEN <<>>
    ELSE IF t[1] = "not" THEN PostOrder(t[2], p \o <<0>>) \o Block(p, "not")
    ELSE IF t[1] = "par" THEN PostOrder(t[2], p)
    ELSE IF t[2] = NAND
    THEN PostOrder(t[4], p \o <<1>>) \o PostOrder(t[3], p \o <<0>>) \o Block(p, "nand")
    ELSE PostOrder(t[3], p \o <<0>>) \o PostOrder(t[4], p \o <<1>>)
            \o Block(p, MethodOf(t[2]))

\* C21: eval visits the tree post-order with exactly one Logip method per
\* interior node, after its subtrees; for A & B, A | B, A ^ B every nand call
\* of A's subtree comes before every nand call of B's subtree, for A $ B every
\* nand call of B's subtree comes before every nand call of A's subtree.
C21_PostOrder ==
    (Returned("eval_logic_expr") /\ call.syn # <<>>)
        => ret.val.at = PostOrder(call.syn, <<>>)

\* "!0$!1": the not of the right operand (second field) is applied first
C21_Witness ==
    /\ Returned("eval_logic_expr")
    /\ call.l = <<"!", "0", "$", "!", "1">>
    /\ ret.val.at = <<<<<<1>>, "not">>, <<<<0>>, "not">>, <<<<>>, "nand">>>>
    /\ ret.val.calls = <<<<1, 1>>, <<0, 0>>, <<0, 1>>>>

\* C22: for an expression parsed from "A $ B", eval calls nand with the value
\* of A as its first argument and the value of B as its second.
C22_NandArgumentOrder ==
    (Returned("eval_logic_expr") /\ call.syn # <<>>
        /\ call.syn[1] = "bin" /\ call.syn[2] = NAND)
        => ret.val.calls[Len(ret.val.calls)] = <<Value(call.syn[3]), Value(call.syn[4])>>

\* C23: parse accepts a text only when the whole whitespace-stripped input is
\* one well-formed expression: an accepted text leaves no character unread.
C23_WholeInput ==
    (Returned("parse_logic_expr") /\ ret.val.ok) => ret.val.rest = <<>>

\* How a left-to-right scan of a text ends: "ok", or the failure "none" (the
\* text ends where an element is expected), "element" (a character other than
\* 0, 1, ! and ( stands where an element is expected) or "bracket" (inside
\* `depth` open brackets an expression is followed by the end of the text or by
\* a character that is neither an operator nor a closing bracket).  A
\* character that cannot continue an expression outside every bracket ends the
\* scan.
RECURSIVE Scan(_, _, _)
Scan(l, expecting, depth) ==
    IF l = <<>>
    THEN IF expecting THEN "none" ELSE IF depth > 0 THEN "bracket" ELSE "ok"
    ELSE LET c == Head(l)
         IN  IF c \in {" ", "\t", "\n"} THEN Scan(Tail(l), expecting, depth)
             ELSE IF expecting
             THEN IF c \in {"0", "1"} THEN Scan(Tail(l), FALSE, depth)
                  ELSE IF c = "!" THEN Scan(Tail(l), TRUE, depth)
                  ELSE IF c = "(" THEN Scan(Tail(l), TRUE, depth + 1)
                  ELSE "element"
             ELSE IF c \in {"&", "|", "^", "$"} THEN Scan(Tail(l), TRUE, depth)
                  ELSE IF depth = 0 THEN "ok"
                  ELSE IF c = ")" THEN Scan(Tail(l), FALSE, depth - 1)
                  ELSE "bracket"

\* parse returns, and fails exactly when the scan fails, with the error value
\* that stands for the scan's failure
ParseErrorsAre(bracket, element, none) ==
    (call.op = "parse_logic_expr" /\ ret.done)
        => /\ ~ret.panic
           /\ LET end == Scan(call.l, TRUE, 0)
              IN  /\ ret.val.ok <=> end = "ok"
                  /\ end = "bracket" => ret.val.err = bracket
                  /\ end = "element" => ret.val.err = element
                  /\ end = "none" => ret.val.err = none

Init == TorusInit \/ PolyInit \/ LogicInit \/ FftSpecInit

Next == TorusNext \/ PolyNext \/ LogicNext \/ FftNext

Spec == Init /\ [][Next]_vars

=============================================================================
